---- MODULE Spec2Model ----
(***************************************************************************)
(* A model of pyfy6900 (src/src/pyfy6900/fy6900.py): the FY6900Serial      *)
(* driver, its serial transport, its connection lifecycle and its channel  *)
(* parameter codec.                                                        *)
(*                                                                         *)
(* Text on the wire is a sequence of one-character strings; a command line *)
(* is a sequence of fragments (its mnemonic, then the characters of its    *)
(* argument).  The device is a separate process that queues a reply when a *)
(* command line reaches it and puts the reply on the line byte by byte.    *)
(***************************************************************************)
EXTENDS Integers, Sequences, FiniteSets, TLC

VARIABLES
    portName,               \* self._portName: the configured target, or None
    port,                   \* self._port: None, or the open serial handle
    registered,             \* atexit's registry holds self.__close
    usesContext,            \* self._usesContext: "unset" until __enter__ sets it
    identification_string,  \* self._identification_string
    maxfrq,                 \* self._maxfrq: <<>> while the attribute does not exist
    serialnumber,           \* self._serialnumber
    op,                     \* the public operation running, or the last one run
    pc,                     \* where that operation stands ("idle": none runs)
    scpc,                   \* where _sendCommand stands inside it
    cmd,                    \* _sendCommand's cmd
    res,                    \* _sendCommand's res, the characters read so far
    ret,                    \* what the last _sendCommand call returned or raised
    rxbuf,                  \* bytes received and not yet read by the driver
    devout,                 \* bytes the device has queued and not yet sent
    wire,                   \* what the running (or last) operation wrote to the port
    devreg,                 \* the device's memory: the setpoint it stored last
    setpoint,               \* history: the argument of the set call that wrote devreg
    wavedata,               \* the caller's sample list, as _upload_waveform leaves it
    outcome,                \* what the last finished operation returned or raised
    proc                    \* the process: "running" or "exited"

driver == <<portName, port, registered, usesContext, identification_string, maxfrq, serialnumber>>
ctl == <<op, pc, scpc, cmd, res, ret>>
io == <<rxbuf, devout, wire, devreg, setpoint, wavedata>>
vars == <<driver, ctl, io, outcome, proc>>

None == "None"
LF == "\n"

(***************************************************************************)
(* Bounds of the model.                                                    *)
(***************************************************************************)
\* The device takes a command only while at most this many of its bytes wait.
MaxBacklog == 1

(***************************************************************************)
(* Results and exceptions.                                                 *)
(***************************************************************************)
Return(v) == [kind |-> "return", err |-> "", val |-> <<v>>]
Raise(e) == [kind |-> "raise", err |-> e, val |-> <<>>]
NoResult == [kind |-> "none", err |-> "", val |-> <<>>]

(***************************************************************************)
(* Text helpers: what str.strip, str.startswith, str.split and int do.     *)
(***************************************************************************)
Whitespace == {" ", "\t", "\r", LF}
Digits == <<"0", "1", "2", "3", "4", "5", "6", "7", "8", "9">>
IsDigit(c) == \E i \in 1..10 : Digits[i] = c
DigitVal(c) == (CHOOSE i \in 1..10 : Digits[i] = c) - 1

RECURSIVE LStrip(_)
LStrip(s) == IF s # <<>> /\ Head(s) \in Whitespace THEN LStrip(Tail(s)) ELSE s

RECURSIVE RStrip(_)
RStrip(s) ==
    IF s # <<>> /\ s[Len(s)] \in Whitespace THEN RStrip(SubSeq(s, 1, Len(s) - 1)) ELSE s

Strip(s) == RStrip(LStrip(s))

StartsWith(s, p) == Len(s) >= Len(p) /\ SubSeq(s, 1, Len(p)) = p

\* The positions of sep in s.
SepAt(s, sep) == {i \in 1..Len(s) : s[i] = sep}

\* s.split(sep)[1]: the text between the first sep and the next one (or the end).
SplitSecond(s, sep) ==
    LET first == CHOOSE i \in SepAt(s, sep) : \A j \in SepAt(s, sep) : i <= j
        later == {j \in SepAt(s, sep) : j > first}
        stop == IF later = {} THEN Len(s) + 1
                ELSE CHOOSE j \in later : \A k \in later : j <= k
    IN  SubSeq(s, first + 1, stop - 1)

RECURSIVE DigitsValue(_)
DigitsValue(s) ==
    IF s = <<>> THEN 0 ELSE 10 * DigitsValue(SubSeq(s, 1, Len(s) - 1)) + DigitVal(s[Len(s)])

(***************************************************************************)
(* Numbers.  A Python float is modelled as an exact decimal with six       *)
(* fractional digits, in three limbs so that 2^32 and frequencies in Hz    *)
(* fit: the value of d is (-1)^neg * (hi * 10^6 + lo + fr / 10^6).         *)
(***************************************************************************)
Base == 1000 * 1000

Dec(n, h, l, f) == [neg |-> n, hi |-> h, lo |-> l, fr |-> f]
DecZero == Dec(FALSE, 0, 0, 0)
IsZero(a) == a.hi = 0 /\ a.lo = 0 /\ a.fr = 0
IsNeg(a) == a.neg /\ ~IsZero(a)
Abs(n) == IF n < 0 THEN 0 - n ELSE n

\* An integer below 2^31 as a number.
DecInt(n) == Dec(n < 0, Abs(n) \div Base, Abs(n) % Base, 0)

\* A count of millionths below 2^31 as a number.
DecMicro(u) == Dec(u < 0, 0, Abs(u) \div Base, Abs(u) % Base)

MagLess(a, b) ==
    \/ a.hi < b.hi
    \/ a.hi = b.hi /\ a.lo < b.lo
    \/ a.hi = b.hi /\ a.lo = b.lo /\ a.fr < b.fr

DecLess(a, b) ==
    CASE IsNeg(a) /\ ~IsNeg(b) -> ~(IsZero(a) /\ IsZero(b))
      [] ~IsNeg(a) /\ IsNeg(b) -> FALSE
      [] IsNeg(a) /\ IsNeg(b) -> MagLess(b, a)
      [] OTHER -> MagLess(a, b)

DecGreater(a, b) == DecLess(b, a)

DecNegate(a) == [a EXCEPT !.neg = ~a.neg]

\* |a| - |b| for |a| >= |b|.
MagSub(a, b) ==
    LET f == a.fr - b.fr
        bf == IF f < 0 THEN 1 ELSE 0
        l == a.lo - b.lo - bf
        bl == IF l < 0 THEN 1 ELSE 0
    IN  Dec(FALSE, a.hi - b.hi - bl, l + bl * Base, f + bf * Base)

MagAdd(a, b) ==
    LET f == a.fr + b.fr
        l == a.lo + b.lo + f \div Base
    IN  Dec(FALSE, a.hi + b.hi + l \div Base, l % Base, f % Base)

DecAdd(a, b) ==
    IF a.neg = b.neg THEN [MagAdd(a, b) EXCEPT !.neg = a.neg]
    ELSE IF MagLess(a, b) THEN [MagSub(b, a) EXCEPT !.neg = b.neg]
    ELSE [MagSub(a, b) EXCEPT !.neg = a.neg]

DecSub(a, b) == DecAdd(a, DecNegate(b))

\* a * k for 0 <= k <= 1000.
DecMul(a, k) ==
    LET f == a.fr * k
        l == a.lo * k + f \div Base
    IN  Dec(a.neg, a.hi * k + l \div Base, l % Base, f % Base)

\* a / 10, exact down to the last fractional digit the model keeps.
DecDiv10(a) ==
    Dec(a.neg, a.hi \div 10,
        (a.hi % 10) * (Base \div 10) + a.lo \div 10,
        (a.lo % 10) * (Base \div 10) + a.fr \div 10)

DecDiv1000(a) == DecDiv10(DecDiv10(DecDiv10(a)))
DecDiv10000(a) == DecDiv10(DecDiv1000(a))

(***************************************************************************)
(* float(text) and the f-string formats "{:0.5f}", "{:08.6f}", "{:02.0f}". *)
(***************************************************************************)
RECURSIVE ToDigits(_)
ToDigits(n) == IF n < 10 THEN <<Digits[n + 1]>> ELSE Append(ToDigits(n \div 10), Digits[(n % 10) + 1])

PadLeft(s, w) == [i \in 1..(IF w > Len(s) THEN w - Len(s) ELSE 0) |-> "0"] \o s

RECURSIVE Pow10(_)
Pow10(k) == IF k = 0 THEN 1 ELSE 10 * Pow10(k - 1)

\* The digits of the integer part of |d|.
IntText(d) == IF d.hi = 0 THEN ToDigits(d.lo) ELSE ToDigits(d.hi) \o PadLeft(ToDigits(d.lo), 6)

\* d rounded to k <= 6 fractional digits (a tie rounds away from zero).
DecRound(d, k) ==
    LET unit == Pow10(6 - k)
        q == (d.fr + unit \div 2) \div unit
        up == IF q = Pow10(k) THEN 1 ELSE 0
        l == d.lo + up
    IN  Dec(d.neg, d.hi + l \div Base, l % Base, IF up = 1 THEN 0 ELSE q * unit)

\* f"{d:0w.kf}": the sign, then the digits zero-padded to the width w.
FormatFixed(d, k, w) ==
    LET r == DecRound(d, k)
        body == IntText(r) \o
                (IF k = 0 THEN <<>> ELSE <<".">> \o PadLeft(ToDigits(r.fr \div Pow10(6 - k)), k))
    IN  IF d.neg THEN <<"-">> \o PadLeft(body, w - 1) ELSE PadLeft(body, w)

\* float(s): an optional sign, digits with at most one point among them; the
\* model keeps six fractional digits.
ParseFloat(s) ==
    LET t == Strip(s)
        signed == t # <<>> /\ Head(t) \in {"-", "+"}
        b == IF signed THEN Tail(t) ELSE t
        dots == SepAt(b, ".")
        dot == IF dots = {} THEN Len(b) + 1 ELSE CHOOSE i \in dots : TRUE
        ip == SubSeq(b, 1, dot - 1)
        fp == SubSeq(b, dot + 1, Len(b))
        wellformed == /\ Cardinality(dots) <= 1
                      /\ Len(ip) + Len(fp) >= 1
                      /\ \A i \in 1..Len(ip) : IsDigit(ip[i])
                      /\ \A i \in 1..Len(fp) : IsDigit(fp[i])
    IN  IF ~wellformed THEN [ok |-> FALSE, val |-> DecZero]
        ELSE [ok |-> TRUE,
              val |-> Dec(signed /\ Head(t) = "-",
                          IF Len(ip) > 6 THEN DigitsValue(SubSeq(ip, 1, Len(ip) - 6)) ELSE 0,
                          IF Len(ip) > 6 THEN DigitsValue(SubSeq(ip, Len(ip) - 5, Len(ip)))
                          ELSE DigitsValue(ip),
                          DigitsValue(SubSeq(fp \o <<"0", "0", "0", "0", "0", "0">>, 1, 6)))]

\* int(s): an optional sign and at least one digit, blanks around them
\* ignored; a Python int has no upper limit.
ParseInt(s) ==
    LET t == Strip(s)
        signed == t # <<>> /\ Head(t) \in {"-", "+"}
        d == IF signed THEN Tail(t) ELSE t
    IN  IF d # <<>> /\ \A i \in 1..Len(d) : IsDigit(d[i])
        THEN [ok |-> TRUE, val |-> ParseFloat(t).val]
        ELSE [ok |-> FALSE, val |-> DecZero]

\* a == b for numbers (minus zero equals zero).
DecEq(a, b) == ~DecLess(a, b) /\ ~DecLess(b, a)
(***************************************************************************)
(* The channel accessors.  For each method, M_cmd is what it does before   *)
(* any wire I/O (raise, return, or the command line it sends) and M_result *)
(* is what it makes of the reply line _sendCommand returned.               *)
(***************************************************************************)
Send(c) == [kind |-> "send", cmd |-> c, err |-> "", val |-> <<>>]
Fail(e) == [kind |-> "raise", cmd |-> <<>>, err |-> e, val |-> <<>>]
Done(v) == [kind |-> "return", cmd |-> <<>>, err |-> "", val |-> <<v>>]

\* A read accessor's "if channel == 0 ... elif channel == 1 ... else raise".
ReadCmd(channel, m0, m1) ==
    IF channel = 0 THEN Send(<<m0>>)
    ELSE IF channel = 1 THEN Send(<<m1>>)
    ELSE Fail("ValueError")

\* A write accessor's dispatch whose else branch raises.
WriteCmd(channel, m0, m1, text) ==
    IF channel = 0 THEN Send(<<m0>> \o text)
    ELSE IF channel = 1 THEN Send(<<m1>> \o text)
    ELSE Fail("ValueError")

\* --- waveform
set_waveformNumberMap ==
    { <<"SINE", 0>>, <<"SQUARE", 1>>, <<"RECTANGLE", 2>>, <<"TRAPEZOID", 3>>, <<"CMOS", 4>>,
      <<"ADJPULSE", 5>>, <<"DC", 6>>, <<"TRGL", 7>>, <<"RAMP", 8>>, <<"NEGRAMP", 9>>,
      <<"STAIRTRGL", 10>>, <<"STARSTEP", 11>>, <<"NEGSTAIR", 12>>, <<"POSEXP", 13>>,
      <<"NEGEXP", 14>>, <<"PFALLEXP", 15>>, <<"NFALLEXP", 16>>, <<"POSLOG", 17>>,
      <<"NEGLOG", 18>>, <<"PFALLLOG", 19>>, <<"NFALLLOG", 20>>, <<"PFULLWAV", 21>>,
      <<"NFULLWAV", 22>>, <<"PHALFWAV", 23>>, <<"NHALFWAV", 24>>, <<"SINCPULSE", 30>>,
      <<"IMPULSE", 31>>, <<"AM", 33>>, <<"FM", 34>>, <<"CHIRP", 35>>, <<"WHITENOISE", 27>>,
      <<"LORENTZPULSE", 25>>, <<"ECGSIMULATION", 28>> }

get_waveformNumberMap ==
    { <<0, "SINE">>, <<1, "SQUARE">>, <<2, "RECTANGLE">>, <<3, "TRAPEZOID">>, <<4, "CMOS">>,
      <<5, "ADJPULSE">>, <<6, "DC">>, <<7, "TRGL">>, <<8, "RAMP">>, <<9, "NEGRAMP">>,
      <<10, "STAIRTRGL">>, <<11, "STARSTEP">>, <<12, "NEGSTAIR">>, <<13, "POSEXP">>,
      <<14, "NEGEXP">>, <<15, "PFALLEXP">>, <<16, "NFALLEXP">>, <<17, "POSLOG">>,
      <<18, "NEGLOG">>, <<19, "PFALLLOG">>, <<20, "NFALLLOG">>, <<21, "PFULLWAV">>,
      <<22, "NFULLWAV">>, <<23, "PHALFWAV">>, <<24, "NHALFWAV">>, <<30, "SINCPULSE">>,
      <<31, "IMPULSE">>, <<33, "AM">>, <<34, "FM">>, <<35, "CHIRP">>, <<27, "WHITENOISE">>,
      <<25, "LORENTZPULSE">>, <<28, "ECGSIMULATION">> }

HasKey(map, k) == \E e \in map : e[1] = k
Lookup(map, k) == (CHOOSE e \in map : e[1] = k)[2]

\* waveform and arbitrary are <<>> for None, else <<value>>.
set_channel_waveform_cmd(channel, waveform, arbitrary) ==
    IF waveform = <<>> /\ arbitrary = <<>> THEN Fail("ValueError")
    ELSE IF waveform # <<>> /\ arbitrary # <<>> THEN Fail("ValueError")
    ELSE IF arbitrary = <<>> /\ ~HasKey(set_waveformNumberMap, waveform[1]) THEN Fail("ValueError")
    ELSE IF arbitrary # <<>> /\ (arbitrary[1] < 0 \/ arbitrary[1] >= 64) THEN Fail("ValueError")
    ELSE IF arbitrary = <<>>
         THEN WriteCmd(channel, "WMW", "WFW", ToDigits(Lookup(set_waveformNumberMap, waveform[1])))
         ELSE WriteCmd(channel, "WMW", "WFW", FormatFixed(DecInt(36 + arbitrary[1]), 0, 2))

get_channel_waveform_cmd(channel) == ReadCmd(channel, "RMW", "RFW")

get_channel_waveform_result(reply) ==
    LET wv == ParseInt(reply)
        hit == {e \in get_waveformNumberMap : DecEq(DecInt(e[1]), wv.val)}
    IN  IF ~wv.ok THEN Raise("ProtocolViolation")
        ELSE IF hit = {} THEN Raise("ProtocolViolation")
        ELSE Return((CHOOSE e \in hit : TRUE)[2])

\* --- frequency
get_channel_frequency_cmd(channel) == ReadCmd(channel, "RMF", "RFF")

get_channel_frequency_result(reply) ==
    LET r == ParseFloat(reply)
    IN  IF ~r.ok THEN Raise("ProtocolViolation")
        ELSE IF DecLess(r.val, DecZero) THEN Raise("ProtocolViolation")
        ELSE IF maxfrq = <<>> THEN Raise("AttributeError")
        ELSE IF DecGreater(r.val, maxfrq[1]) THEN Raise("ProtocolViolation")
        ELSE Return(r.val)

set_channel_frequency_cmd(channel, frequency) ==
    IF DecLess(frequency, DecZero) THEN Fail("ValueError")
    ELSE IF maxfrq = <<>> THEN Fail("AttributeError")
    ELSE IF DecGreater(frequency, maxfrq[1]) THEN Fail("ValueError")
    ELSE IF channel = 0 THEN Send(<<"WMF">> \o FormatFixed(frequency, 6, 8))
    ELSE IF channel = 1 THEN Send(<<"WFF">> \o FormatFixed(frequency, 6, 8))
    ELSE Done(TRUE)

\* --- amplitude
get_channel_amplitude_cmd(channel) == ReadCmd(channel, "RMA", "RFA")

get_channel_amplitude_result(reply) ==
    LET r == ParseFloat(reply)
        v == DecDiv10000(r.val)
    IN  IF ~r.ok THEN Raise("ProtocolViolation")
        ELSE IF DecLess(v, DecZero) \/ DecGreater(v, DecInt(20)) THEN Raise("ProtocolViolation")
        ELSE Return(v)

set_channel_amplitude_cmd(channel, amplitude) ==
    IF DecLess(amplitude, DecZero) \/ DecGreater(amplitude, DecInt(20)) THEN Fail("ValueError")
    ELSE WriteCmd(channel, "WMA", "WFA", FormatFixed(amplitude, 5, 0))

\* --- offset
TwoPow32 == Dec(FALSE, 4294, 967296, 0)

get_channel_offset_cmd(channel) == ReadCmd(channel, "RMO", "RFO")

get_channel_offset_result(reply) ==
    LET r == ParseFloat(reply)
        v == IF DecGreater(r.val, DecInt(10000))
             THEN DecDiv1000(DecNegate(DecSub(TwoPow32, r.val)))
             ELSE DecDiv1000(r.val)
    IN  IF ~r.ok THEN Raise("ProtocolViolation")
        ELSE IF DecLess(v, DecInt(-20)) \/ DecGreater(v, DecInt(20)) THEN Raise("ProtocolViolation")
        ELSE Return(v)

set_channel_offset_cmd(channel, offset) ==
    IF DecLess(offset, DecInt(-20)) \/ DecGreater(offset, DecInt(20)) THEN Fail("ValueError")
    ELSE WriteCmd(channel, "WMO", "WFO", FormatFixed(offset, 5, 0))

\* --- duty
DutyMax == Dec(FALSE, 0, 99, 999000)

get_channel_duty_cmd(channel) == ReadCmd(channel, "RMD", "RFD")

get_channel_duty_result(reply) ==
    LET r == ParseFloat(reply)
    IN  IF ~r.ok THEN Raise("ProtocolViolation") ELSE Return(DecDiv1000(r.val))

set_channel_duty_cmd(channel, duty) ==
    IF DecLess(duty, DecZero) \/ DecGreater(duty, DecInt(100)) THEN Fail("ValueError")
    ELSE WriteCmd(channel, "WMD", "WFD",
                  FormatFixed(IF DecGreater(duty, DutyMax) THEN DutyMax ELSE duty, 3, 2))

\* --- phase
PhaseMax == Dec(FALSE, 0, 359, 999000)

get_channel_phase_cmd(channel) == ReadCmd(channel, "RMP", "RFP")

get_channel_phase_result(reply) ==
    LET r == ParseFloat(reply)
        v == DecDiv1000(r.val)
    IN  IF ~r.ok THEN Raise("ProtocolViolation")
        ELSE IF DecLess(v, DecZero) \/ DecGreater(v, DecInt(360)) THEN Raise("ProtocolViolation")
        ELSE Return(v)

\* while phase < 0: phase = phase + 360.0
RECURSIVE PhaseUp(_)
PhaseUp(phase) == IF DecLess(phase, DecZero) THEN PhaseUp(DecAdd(phase, DecInt(360))) ELSE phase

\* while phase > 359.999: phase = phase - 360.0
RECURSIVE PhaseDown(_)
PhaseDown(phase) ==
    IF DecGreater(phase, PhaseMax) THEN PhaseDown(DecSub(phase, DecInt(360))) ELSE phase

set_channel_phase_cmd(channel, phase) ==
    WriteCmd(channel, "WMP", "WFP", FormatFixed(PhaseDown(PhaseUp(phase)), 3, 3))

\* --- enable
is_channel_enabled_cmd(channel) == ReadCmd(channel, "RMN", "RFN")

is_channel_enabled_result(reply) ==
    LET r == ParseInt(reply)
    IN  IF ~r.ok THEN Raise("ProtocolViolation")
        ELSE IF DecEq(r.val, DecInt(0)) THEN Return(FALSE)
        ELSE IF DecEq(r.val, DecInt(255)) THEN Return(TRUE)
        ELSE Raise("ProtocolViolation")

set_channel_enabled_cmd(channel, enable) ==
    IF channel = 0 /\ enable THEN Send(<<"WMN", "1">>)
    ELSE IF channel = 0 /\ ~enable THEN Send(<<"WMN", "0">>)
    ELSE IF channel = 1 /\ enable THEN Send(<<"WFN", "1">>)
    ELSE IF channel = 1 /\ ~enable THEN Send(<<"WFN", "0">>)
    ELSE Done(TRUE)

(***************************************************************************)
(* The device's side of the line.                                          *)
(***************************************************************************)
IdentGood == <<"F", "Y", "6", "9", "0", "0", "-", "6", "0", "M">>
IdentPadded == <<"F", "Y", "6", "9", "0", "0", "-", "6", "0", "M", "\r">>
IdentOther == <<"F", "Y", "6", "8", "0", "0", "-", "6", "0", "M">>
IdentNoFigure == <<"F", "Y", "6", "9", "0", "0", "-", "M">>

ReadMnemonics(p) == {"RM" \o p, "RF" \o p}

\* The reply lines (each without its LF) a device may give to a command line:
\* values inside and outside each parameter's range, and lines that are no
\* number at all.
DeviceReplies(c) ==
    CASE Head(c) = "UMO" -> {IdentGood, IdentPadded, IdentOther, IdentNoFigure}
      [] Head(c) = "UID" -> {<<"7", "1">>}
      [] Head(c) \in ReadMnemonics("W") -> {ToDigits(0), ToDigits(26), ToDigits(36), <<"x">>}
      [] Head(c) \in ReadMnemonics("F") ->
            {FormatFixed(Dec(FALSE, 0, 1000, 500000), 6, 15),
             FormatFixed(Dec(FALSE, 600, 0, 0), 6, 15),
             FormatFixed(Dec(FALSE, 600, 0, 1), 6, 15),
             FormatFixed(Dec(TRUE, 0, 1, 0), 6, 15)}
      [] Head(c) \in ReadMnemonics("A") -> {ToDigits(12345), ToDigits(200000), ToDigits(200001)}
      [] Head(c) \in ReadMnemonics("O") ->
            {ToDigits(0), ToDigits(10000), ToDigits(10001), ToDigits(20000),
             IntText(Dec(FALSE, 4294, 967295, 0)), IntText(Dec(FALSE, 4294, 947296, 0)),
             IntText(Dec(FALSE, 4294, 947295, 0))}
      [] Head(c) \in ReadMnemonics("D") ->
            {ToDigits(0), ToDigits(99999), ToDigits(100000), ToDigits(250000)}
      [] Head(c) \in ReadMnemonics("P") ->
            {ToDigits(0), ToDigits(359999), ToDigits(360000), ToDigits(360001)}
      [] Head(c) \in ReadMnemonics("N") -> {ToDigits(0), ToDigits(255), ToDigits(1), <<>>}
      [] Head(c) \in {"WMN", "WFN"} -> {<<>>, <<"0x80">>}
      [] Head(c) = "DDS_WAVE" -> {<<"W">>, <<"E">>, <<"W", "\r">>}
      [] OTHER -> {<<>>}

\* What the device queues when a command line reaches it: one reply line with
\* its terminator, or nothing (it stays silent, or it is still busy sending).
DeviceQueues(c) ==
    {<<>>} \cup (IF Len(devout) <= MaxBacklog
                 THEN {r \o <<LF>> : r \in DeviceReplies(c)} ELSE {})

(***************************************************************************)
(* A device that stores the setpoint written to it and reports it in the   *)
(* parameter's read encoding.  Its memory keeps the last setpoint written, *)
(* under the channel letter and the parameter letter of the command.       *)
(***************************************************************************)
NoSetpoint == [key |-> "", val |-> <<>>]

\* No sample list has been handed to the driver yet.
NoBuffer == [vals |-> <<>>, den |-> 1]

Params == {"W", "F", "A", "O", "D", "P", "N"}
WriteKey == [m \in {"WM" \o p : p \in Params} \cup {"WF" \o p : p \in Params} |->
                CHOOSE k \in {"M" \o p : p \in Params} \cup {"F" \o p : p \in Params} :
                    m = "W" \o k]
ReadKey == [m \in {"RM" \o p : p \in Params} \cup {"RF" \o p : p \in Params} |->
               CHOOSE k \in {"M" \o p : p \in Params} \cup {"F" \o p : p \in Params} :
                   m = "R" \o k]
KeyParam(k) == CHOOSE p \in Params : k \in {"M" \o p, "F" \o p}

\* The whole part of a number.
DecTrunc(d) == [d EXCEPT !.fr = 0]

DeviceStore(c) ==
    IF Head(c) \in DOMAIN WriteKey THEN [key |-> WriteKey[Head(c)], val |-> Tail(c)] ELSE devreg

\* The stored text in the read encoding of parameter p: Hz with six decimals,
\* volts * 10000, millivolts (below zero: 2^32 minus them), thousandths of a
\* percent or of a degree, 255/0, the waveform code.
ReadEncoding(p, text) ==
    LET v == ParseFloat(text).val
        milli == DecTrunc(DecMul(v, 1000))
    IN  CASE p = "F" -> FormatFixed(v, 6, 15)
          [] p = "A" -> IntText(DecTrunc(DecMul(DecMul(v, 1000), 10)))
          [] p = "O" -> IF IsNeg(milli) THEN IntText(MagSub(TwoPow32, milli)) ELSE IntText(milli)
          [] p \in {"D", "P"} -> IntText(milli)
          [] p = "N" -> IF text = <<"1">> THEN ToDigits(255) ELSE ToDigits(0)
          [] OTHER -> IntText(DecTrunc(v))

DeviceStoredReply(c) ==
    IF Head(c) \in DOMAIN ReadKey
    THEN IF devreg.key = ReadKey[Head(c)]
         THEN ReadEncoding(KeyParam(devreg.key), devreg.val)
         ELSE ToDigits(0)
    ELSE <<>>

(***************************************************************************)
(* FY6900Serial.__init__                                                   *)
(***************************************************************************)
usedConnect == FALSE

\* The commandRetries argument's default, handed on to the base class.
commandRetries == 3

Init ==
    /\ portName \in {"/dev/ttyU0", None}
    /\ port = None
    /\ registered = TRUE
    /\ usesContext = "unset"
    /\ identification_string = <<>>
    /\ maxfrq = <<>>
    /\ serialnumber = <<>>
    /\ op = [name |-> "init"]
    /\ pc = "idle"
    /\ scpc = "none"
    /\ cmd = <<>>
    /\ res = <<>>
    /\ ret = NoResult
    /\ rxbuf = <<>>
    /\ devout = <<>>
    /\ wire = <<>>
    /\ devreg = NoSetpoint
    /\ setpoint = NoSetpoint
    /\ wavedata = NoBuffer
    /\ outcome = NoResult
    /\ proc = "running"

(***************************************************************************)
(* FY6900Serial._sendCommand, in steps: drain, settle and write, read.     *)
(***************************************************************************)
\* Entering _sendCommand(c) from the operation's position `label`: the first
\* statement reads self._port.timeout, an AttributeError on None.
SendCommand(c, label) ==
    /\ pc' = label
    /\ cmd' = c
    /\ res' = <<>>
    /\ IF port = None
       THEN scpc' = "done" /\ ret' = Raise("AttributeError")
       ELSE scpc' = "drain" /\ ret' = NoResult

\* Lines 132-138 left out: the receive buffer is kept.
sc_drain_skipped ==
    /\ scpc = "drain"
    /\ scpc' = "write"
    /\ UNCHANGED <<driver, op, pc, cmd, res, ret, io, outcome, proc>>

\* The drain loop: read(1) with timeout 0 until it returns nothing.
sc_drain ==
    /\ scpc = "drain"
    /\ rxbuf' = <<>>
    /\ scpc' = "write"
    /\ UNCHANGED <<driver, op, pc, cmd, res, ret, devout, wire, devreg, setpoint, wavedata, outcome, proc>>

\* sleep(delay); port.write(cmd + "\n"): the line reaches the device.
sc_write ==
    /\ scpc = "write"
    /\ wire' = wire \o cmd \o <<LF>>
    /\ \E q \in DeviceQueues(cmd) : devout' = devout \o q
    /\ scpc' = "read"
    /\ UNCHANGED <<driver, op, pc, cmd, res, ret, rxbuf, devreg, setpoint, wavedata, outcome, proc>>

\* port.write raises (the link is gone): nothing is written.
sc_write_fails ==
    /\ scpc = "write"
    /\ scpc' = "done"
    /\ ret' = Raise("SerialException")
    /\ UNCHANGED <<driver, op, pc, cmd, res, io, outcome, proc>>

\* The read loop's body for c, what port.read(1) returned (<<>> on a timeout),
\* and acc, the characters kept so far.
sendCommand_partial(c, acc) ==
    IF c = <<>> THEN [done |-> TRUE, res |-> acc, ret |-> Return(acc)]
    ELSE IF c[1] = "0x80" THEN [done |-> TRUE, res |-> acc, ret |-> Raise("UnicodeDecodeError")]
    ELSE IF c[1] = LF THEN [done |-> TRUE, res |-> acc, ret |-> Return(acc)]
    ELSE [done |-> FALSE, res |-> Append(acc, c[1]), ret |-> NoResult]

sendCommand_read(c, acc) ==
    IF c = <<>> THEN [done |-> TRUE, res |-> acc, ret |-> Raise("Timeout")]
    ELSE IF c[1] = "0x80" THEN [done |-> TRUE, res |-> acc, ret |-> Raise("UnicodeDecodeError")]
    ELSE IF c[1] = LF THEN [done |-> TRUE, res |-> acc, ret |-> Return(acc)]
    ELSE [done |-> FALSE, res |-> Append(acc, c[1]), ret |-> NoResult]

\* port.read(1) returns the next received byte.
sc_read ==
    /\ scpc = "read"
    /\ rxbuf # <<>>
    /\ LET r == sendCommand_read(<<Head(rxbuf)>>, res)
       IN  /\ res' = r.res
           /\ ret' = r.ret
           /\ scpc' = IF r.done THEN "done" ELSE "read"
    /\ rxbuf' = Tail(rxbuf)
    /\ UNCHANGED <<driver, op, pc, cmd, devout, wire, devreg, setpoint, wavedata, outcome, proc>>

\* port.read(1) returns nothing within the read timeout.
sc_timeout ==
    /\ scpc = "read"
    /\ rxbuf = <<>>
    /\ LET r == sendCommand_read(<<>>, res)
       IN  /\ res' = r.res
           /\ ret' = r.ret
           /\ scpc' = IF r.done THEN "done" ELSE "read"
    /\ UNCHANGED <<driver, op, pc, cmd, io, outcome, proc>>

\* The device puts its next queued byte on the line; with no port open the
\* byte is lost.
dev_send ==
    /\ devout # <<>>
    /\ proc = "running"
    /\ devout' = Tail(devout)
    /\ rxbuf' = IF port = None THEN rxbuf ELSE Append(rxbuf, Head(devout))
    /\ UNCHANGED <<driver, ctl, wire, devreg, setpoint, wavedata, outcome, proc>>

(***************************************************************************)
(* _sendCommand as one step, against a device that answers within the      *)
(* exchange or not at all: the same loop, run over what the reads return.  *)
(***************************************************************************)
\* The read loop over `incoming`, the results of the successive port.read(1)
\* calls (each <<byte>>, or <<>> for a read that timed out).
RECURSIVE sendCommand_loop(_, _)
sendCommand_loop(incoming, acc) ==
    LET r == sendCommand_read(Head(incoming), acc)
    IN  IF r.done \/ Len(incoming) = 1 THEN r ELSE sendCommand_loop(Tail(incoming), r.res)

Bytes(s) == [i \in 1..Len(s) |-> <<s[i]>>]

\* What the reads of one exchange may return: a whole reply line, or the
\* first k bytes of one and then nothing.
Arrivals(c) ==
    UNION {{Bytes(r \o <<LF>>)} \cup {Bytes(SubSeq(r, 1, k)) \o <<<<>>>> : k \in 0..Len(r)}
           : r \in DeviceReplies(c)}

exchange ==
    /\ scpc = "drain"
    /\ wire' = wire \o cmd \o <<LF>>
    /\ \E a \in Arrivals(cmd) :
          LET r == sendCommand_loop(a, <<>>)
          IN  res' = r.res /\ ret' = r.ret
    /\ scpc' = "done"
    /\ UNCHANGED <<driver, op, pc, cmd, rxbuf, devout, devreg, setpoint, wavedata, outcome, proc>>

exchange_fails ==
    /\ scpc = "drain"
    /\ scpc' = "done"
    /\ ret' = Raise("SerialException")
    /\ UNCHANGED <<driver, op, pc, cmd, res, io, outcome, proc>>

(***************************************************************************)
(* How an operation starts and ends.                                       *)
(***************************************************************************)
CanCall == pc = "idle" /\ proc = "running"

Begin(o) == op' = o /\ wire' = <<>>

Finish(o) ==
    /\ outcome' = o
    /\ pc' = "idle"
    /\ scpc' = "none"
    /\ cmd' = <<>>
    /\ res' = <<>>
    /\ ret' = NoResult

Returned(label) == pc = label /\ scpc = "done"

(***************************************************************************)
(* FY6900Serial._initialRequests                                           *)
(***************************************************************************)
IdentPrefix == <<"F", "Y", "6", "9", "0", "0", "-">>

\* Lines 190-198 alone: the identification is not checked for its prefix.
initialRequests_anyprefix(idstr) ==
    LET figure == SplitSecond(idstr, "-")
        n == ParseInt(SubSeq(figure, 1, Len(figure) - 1))
    IN  IF ~n.ok
        THEN [err |-> "ProtocolViolation", maxfrq |-> maxfrq]
        ELSE [err |-> "", maxfrq |-> <<DecMul(DecMul(DecMul(n.val, 1000), 1000), 10)>>]

\* Lines 187-198, given what _id returned: the attributes set and the error
\* raised, if any.
initialRequests_parse(idstr) ==
    IF ~StartsWith(idstr, IdentPrefix)
    THEN [err |-> "ProtocolViolation", maxfrq |-> maxfrq]
    ELSE LET figure == SplitSecond(idstr, "-")
             n == ParseInt(SubSeq(figure, 1, Len(figure) - 1))
         IN  IF ~n.ok
             THEN [err |-> "ProtocolViolation", maxfrq |-> maxfrq]
             ELSE [err |-> "",
                   maxfrq |-> <<DecMul(DecMul(DecMul(n.val, 1000), 1000), 10)>>]

(***************************************************************************)
(* FY6900Serial._connect and __enter__                                     *)
(***************************************************************************)
\* connect() or __enter__ with nothing to open: _connect returns True.
connect_noop(name) ==
    /\ CanCall
    /\ name = "enter" => usesContext # "TRUE" /\ ~usedConnect
    /\ ~(port = None /\ portName # None)
    /\ Begin([name |-> name])
    /\ Finish(Return(TRUE))
    /\ usesContext' = IF name = "enter" THEN "TRUE" ELSE usesContext
    /\ UNCHANGED <<portName, port, registered, identification_string, maxfrq, serialnumber,
                   rxbuf, devout, devreg, setpoint, wavedata, proc>>

\* serial.Serial(...) succeeds; _initialRequests starts with _id.
connect_open(name) ==
    /\ CanCall
    /\ name = "enter" => usesContext # "TRUE" /\ ~usedConnect
    /\ port = None /\ portName # None
    /\ Begin([name |-> name])
    /\ port' = "open"
    /\ pc' = "connect_id" /\ cmd' = <<"UMO">> /\ res' = <<>>
    /\ scpc' = "drain" /\ ret' = NoResult
    /\ UNCHANGED <<portName, registered, usesContext, identification_string, maxfrq,
                   serialnumber, rxbuf, devout, devreg, setpoint, wavedata, outcome, proc>>

\* serial.Serial(...) raises: no handle is assigned.
connect_open_fails(name) ==
    /\ CanCall
    /\ name = "enter" => usesContext # "TRUE" /\ ~usedConnect
    /\ port = None /\ portName # None
    /\ Begin([name |-> name])
    /\ Finish(Raise("SerialException"))
    /\ UNCHANGED <<driver, rxbuf, devout, devreg, setpoint, wavedata, proc>>

\* _id returned (or raised) inside _initialRequests.
connect_id ==
    /\ Returned("connect_id")
    /\ IF ret.kind = "raise"
       THEN /\ Finish(ret)
            /\ UNCHANGED <<driver, op, io, proc>>
       ELSE LET idstr == Strip(ret.val[1])
                p == initialRequests_parse(idstr)
            IN  /\ identification_string' = idstr
                /\ maxfrq' = p.maxfrq
                /\ IF p.err # ""
                   THEN Finish(Raise(p.err))
                   ELSE SendCommand(<<"UID">>, "connect_serial") /\ UNCHANGED outcome
                /\ UNCHANGED <<portName, port, registered, usesContext, serialnumber,
                               op, io, proc>>

\* _serial returned (or raised): _connect returns True.
connect_serial ==
    /\ Returned("connect_serial")
    /\ IF ret.kind = "raise"
       THEN /\ Finish(ret)
            /\ UNCHANGED <<driver, op, io, proc>>
       ELSE /\ serialnumber' = Strip(ret.val[1])
            /\ usesContext' = IF op.name = "enter" THEN "TRUE" ELSE usesContext
            /\ Finish(Return(TRUE))
            /\ UNCHANGED <<portName, port, registered, identification_string, maxfrq,
                           op, io, proc>>

(***************************************************************************)
(* FY6900Serial.__close, _off, _disconnect, __exit__ and the exit handler  *)
(***************************************************************************)
\* What a try/except around a disable call in _off lets out: nothing.
off_except_timeout(r) == IF r.kind = "raise" /\ r.err # "Timeout" THEN r ELSE NoResult

off_except(r) == NoResult

\* _disconnect with no port: returns True.
disconnect_noop ==
    /\ CanCall
    /\ port = None
    /\ Begin([name |-> "disconnect"])
    /\ Finish(Return(TRUE))
    /\ UNCHANGED <<driver, rxbuf, devout, devreg, setpoint, wavedata, proc>>

\* __close reached from _disconnect, __exit__ or the exit handler with an open
\* port: it unregisters itself and _off sends the first disable command.
close_open(name) ==
    /\ pc = "idle" /\ proc = "running"
    /\ name \in {"disconnect", "exit", "atexit"}
    /\ name = "exit" => usesContext = "TRUE"
    /\ name = "atexit" => registered /\ usesContext # "TRUE"
    /\ port # None /\ portName # None
    /\ Begin([name |-> name])
    /\ registered' = FALSE
    /\ SendCommand(set_channel_enabled_cmd(0, FALSE).cmd, "off0")
    /\ UNCHANGED <<portName, port, usesContext, identification_string, maxfrq, serialnumber,
                   rxbuf, devout, devreg, setpoint, wavedata, outcome, proc>>

\* The first disable call is over: _off goes on to the second.
off0 ==
    /\ Returned("off0")
    /\ IF off_except(ret).kind = "raise"
       THEN /\ Finish(off_except(ret))
            /\ proc' = IF op.name = "atexit" THEN "exited" ELSE proc
            /\ UNCHANGED <<driver, op, io>>
       ELSE /\ SendCommand(set_channel_enabled_cmd(1, FALSE).cmd, "off1")
            /\ UNCHANGED <<driver, op, io, outcome, proc>>

\* The second disable call is over: __close closes the port and clears it.
off1 ==
    /\ Returned("off1")
    /\ IF off_except(ret).kind = "raise"
       THEN /\ Finish(off_except(ret))
            /\ proc' = IF op.name = "atexit" THEN "exited" ELSE proc
            /\ UNCHANGED <<driver, op, io>>
       ELSE /\ port' = None
            /\ rxbuf' = <<>>
            /\ usesContext' = IF op.name = "exit" THEN "FALSE" ELSE usesContext
            /\ proc' = IF op.name = "atexit" THEN "exited" ELSE proc
            /\ Finish(IF op.name = "disconnect" THEN Return(TRUE) ELSE Return(None))
            /\ UNCHANGED <<portName, registered, identification_string, maxfrq,
                           serialnumber, op, devout, wire, devreg, setpoint, wavedata>>

\* __exit__ with no port: __close only unregisters itself.
exit_noop ==
    /\ CanCall
    /\ usesContext = "TRUE"
    /\ ~(port # None /\ portName # None)
    /\ Begin([name |-> "exit"])
    /\ registered' = FALSE
    /\ usesContext' = "FALSE"
    /\ Finish(Return(None))
    /\ UNCHANGED <<portName, port, identification_string, maxfrq, serialnumber,
                   rxbuf, devout, devreg, setpoint, wavedata, proc>>

\* The process exits with no port open: a registered __close only unregisters.
process_exit_noop ==
    /\ CanCall
    /\ usesContext # "TRUE"
    /\ registered
    /\ ~(port # None /\ portName # None)
    /\ Begin([name |-> "atexit"])
    /\ registered' = FALSE
    /\ proc' = "exited"
    /\ Finish(Return(None))
    /\ UNCHANGED <<portName, port, usesContext, identification_string, maxfrq,
                   serialnumber, rxbuf, devout, devreg, setpoint, wavedata>>

\* The process exits with no handler registered: nothing of the driver runs.
process_exit_unregistered ==
    /\ CanCall
    /\ usesContext # "TRUE"
    /\ ~registered
    /\ proc' = "exited"
    /\ UNCHANGED <<driver, ctl, io, outcome>>
(***************************************************************************)
(* The channel accessors as operations: the call, one exchange with the    *)
(* device, the return.                                                     *)
(***************************************************************************)
CallPlan(o, plan) ==
    /\ Begin(o)
    /\ IF plan.kind = "send"
       THEN SendCommand(plan.cmd, "channel") /\ UNCHANGED outcome
       ELSE Finish(IF plan.kind = "raise" THEN Raise(plan.err) ELSE Return(plan.val[1]))
    /\ UNCHANGED <<driver, rxbuf, devout, devreg, setpoint, wavedata, proc>>

Getter(name, channel) == [name |-> name, channel |-> channel, val |-> <<>>]
Setter(name, channel, v) == [name |-> name, channel |-> channel, val |-> <<v>>]

get_channel_waveform(channel) ==
    /\ CanCall
    /\ CallPlan(Getter("get_channel_waveform", channel), get_channel_waveform_cmd(channel))
set_channel_waveform(channel, waveform, arbitrary) ==
    /\ CanCall
    /\ CallPlan(Setter("set_channel_waveform", channel, <<waveform, arbitrary>>),
             set_channel_waveform_cmd(channel, waveform, arbitrary))
get_channel_frequency(channel) ==
    /\ CanCall
    /\ CallPlan(Getter("get_channel_frequency", channel), get_channel_frequency_cmd(channel))
set_channel_frequency(channel, frequency) ==
    /\ CanCall
    /\ CallPlan(Setter("set_channel_frequency", channel, frequency),
             set_channel_frequency_cmd(channel, frequency))
get_channel_amplitude(channel) ==
    /\ CanCall
    /\ CallPlan(Getter("get_channel_amplitude", channel), get_channel_amplitude_cmd(channel))
set_channel_amplitude(channel, amplitude) ==
    /\ CanCall
    /\ CallPlan(Setter("set_channel_amplitude", channel, amplitude),
             set_channel_amplitude_cmd(channel, amplitude))
get_channel_offset(channel) ==
    /\ CanCall
    /\ CallPlan(Getter("get_channel_offset", channel), get_channel_offset_cmd(channel))
set_channel_offset(channel, offset) ==
    /\ CanCall
    /\ CallPlan(Setter("set_channel_offset", channel, offset),
             set_channel_offset_cmd(channel, offset))
get_channel_duty(channel) ==
    /\ CanCall
    /\ CallPlan(Getter("get_channel_duty", channel), get_channel_duty_cmd(channel))
set_channel_duty(channel, duty) ==
    /\ CanCall
    /\ CallPlan(Setter("set_channel_duty", channel, duty), set_channel_duty_cmd(channel, duty))
get_channel_phase(channel) ==
    /\ CanCall
    /\ CallPlan(Getter("get_channel_phase", channel), get_channel_phase_cmd(channel))
set_channel_phase(channel, phase) ==
    /\ CanCall
    /\ CallPlan(Setter("set_channel_phase", channel, phase), set_channel_phase_cmd(channel, phase))
is_channel_enabled(channel) ==
    /\ CanCall
    /\ CallPlan(Getter("is_channel_enabled", channel), is_channel_enabled_cmd(channel))
set_channel_enabled(channel, enable) ==
    /\ CanCall
    /\ CallPlan(Setter("set_channel_enabled", channel, enable),
             set_channel_enabled_cmd(channel, enable))

Getters == {"get_channel_waveform", "get_channel_frequency", "get_channel_amplitude",
            "get_channel_offset", "get_channel_duty", "get_channel_phase",
            "is_channel_enabled"}
Setters == {"set_channel_waveform", "set_channel_frequency", "set_channel_amplitude",
            "set_channel_offset", "set_channel_duty", "set_channel_phase",
            "set_channel_enabled"}

\* What the accessor returns once _sendCommand has returned the reply line.
AccessorResult(name, reply) ==
    CASE name = "get_channel_waveform" -> get_channel_waveform_result(reply)
      [] name = "get_channel_frequency" -> get_channel_frequency_result(reply)
      [] name = "get_channel_amplitude" -> get_channel_amplitude_result(reply)
      [] name = "get_channel_offset" -> get_channel_offset_result(reply)
      [] name = "get_channel_duty" -> get_channel_duty_result(reply)
      [] name = "get_channel_phase" -> get_channel_phase_result(reply)
      [] name = "is_channel_enabled" -> is_channel_enabled_result(reply)
      [] name = "set_channel_phase" -> Return(None)
      [] OTHER -> Return(TRUE)

\* _sendCommand is over: its error propagates, its reply is decoded.
channel_return ==
    /\ Returned("channel")
    /\ Finish(IF ret.kind = "raise" THEN ret ELSE AccessorResult(op.name, ret.val[1]))
    /\ UNCHANGED <<driver, op, io, proc>>

\* One exchange with the device that stores setpoints.
exchange_stored ==
    /\ scpc = "drain"
    /\ wire' = wire \o cmd \o <<LF>>
    /\ devreg' = DeviceStore(cmd)
    /\ setpoint' = IF Head(cmd) \in DOMAIN WriteKey
                   THEN [key |-> WriteKey[Head(cmd)], val |-> op.val]
                   ELSE setpoint
    /\ LET r == sendCommand_loop(Bytes(DeviceStoredReply(cmd) \o <<LF>>), <<>>)
       IN  res' = r.res /\ ret' = r.ret
    /\ scpc' = "done"
    /\ UNCHANGED <<driver, op, pc, cmd, rxbuf, devout, wavedata, outcome, proc>>


(***************************************************************************)
(* FY6900Serial._upload_waveform                                           *)
(*                                                                         *)
(* The caller's list is a record: element i has the value vals[i] / den.   *)
(* A list of integers has den = 1; the in-place normalisation leaves the   *)
(* floats ((w - mi) / rng) * 16383, kept as (w - mi) * 16383 over rng.     *)
(***************************************************************************)
\* The number of samples a slot takes: 8192 in the code, fewer in the model.
WaveLen == 3

\* The largest value of the 14 bit DAC.
DacMax == 16383

\* The number of identity queries sent after the samples.
ProbeCount == 3

IntList(s) == [vals |-> s, den |-> 1]

RECURSIVE SeqMin(_)
SeqMin(s) ==
    IF Len(s) = 1 THEN s[1]
    ELSE LET m == SeqMin(Tail(s)) IN IF s[1] < m THEN s[1] ELSE m

RECURSIVE SeqMax(_)
SeqMax(s) ==
    IF Len(s) = 1 THEN s[1]
    ELSE LET m == SeqMax(Tail(s)) IN IF s[1] > m THEN s[1] ELSE m

\* Lines 554-561 with the subtraction of mi left out.
upload_normalize_unshifted(data) ==
    LET mi == SeqMin(data.vals)
        mx == SeqMax(data.vals)
        rng == IF mx - mi = 0 THEN 1 ELSE mx - mi
    IN  [vals |-> [i \in 1..Len(data.vals) |-> data.vals[i] * DacMax], den |-> rng]

\* Lines 554-561: wavedata[i] = ((wavedata[i] - mi) / rng) * 16383, in place.
upload_normalize(data) ==
    LET mi == SeqMin(data.vals)
        mx == SeqMax(data.vals)
        rng == IF mx - mi = 0 THEN 1 ELSE mx - mi
    IN  [vals |-> [i \in 1..Len(data.vals) |-> (data.vals[i] - mi) * DacMax], den |-> rng]

\* Lines 547-552: the slot and the length are acceptable.
upload_accepts(slot, data) == ~(slot < 0 \/ slot > 63) /\ Len(data.vals) = WaveLen

\* The caller's list once the argument checks and the normalisation are over.
upload_buffer(slot, data, normalize) ==
    IF upload_accepts(slot, data) /\ normalize THEN upload_normalize(data) ELSE data

\* Line 563: min(wavedata) < 0 or max(wavedata) > 16383.
upload_out_of_range(buf) ==
    SeqMin(buf.vals) < 0 \/ SeqMax(buf.vals) > DacMax * buf.den

\* Line 567: f"DDS_WAVE{(slot+1):02.0f}\n", the line feed included.
upload_select_cmd(slot) == <<"DDS_WAVE">> \o FormatFixed(DecInt(slot + 1), 0, 2) \o <<LF>>

\* Lines 547-567 with the check of the sample values left out.
upload_waveform_unchecked(slot, data, normalize) ==
    IF slot < 0 \/ slot > 63 THEN Fail("ValueError")
    ELSE IF Len(data.vals) # WaveLen THEN Fail("ValueError")
    ELSE Send(upload_select_cmd(slot))

\* Lines 547-567: what _upload_waveform does before any wire I/O.
upload_waveform_cmd(slot, data, normalize) ==
    IF slot < 0 \/ slot > 63 THEN Fail("ValueError")
    ELSE IF Len(data.vals) # WaveLen THEN Fail("ValueError")
    ELSE IF upload_out_of_range(upload_buffer(slot, data, normalize)) THEN Fail("ValueError")
    ELSE Send(upload_select_cmd(slot))

\* Line 568 with any reply taken for the acknowledgement.
upload_ack_any(resp) == TRUE

\* Line 568: resp != "W" raises.
upload_ack(resp) == resp = <<"W">>

\* A byte of the binary stream, written as text: "xhh".
ByteText(n) ==
    LET hex == <<"0", "1", "2", "3", "4", "5", "6", "7",
                 "8", "9", "a", "b", "c", "d", "e", "f">>
    IN  "x" \o hex[(n \div 16) + 1] \o hex[(n % 16) + 1]

\* struct.pack('>H', int(b)): the high byte, then the low byte.
Pack(v) == <<ByteText(v \div 256), ByteText(v % 256)>>

\* int(b) for each element of the list.
upload_words(buf) == [i \in 1..Len(buf.vals) |-> buf.vals[i] \div buf.den]

RECURSIVE PackAll(_)
PackAll(words) == IF words = <<>> THEN <<>> ELSE Pack(Head(words)) \o PackAll(Tail(words))

\* The call: argument checks, normalisation, range check, slot-select.
upload_waveform(slot, data, normalize) ==
    /\ CanCall
    /\ Begin([name |-> "upload_waveform", slot |-> slot, data |-> data,
              normalize |-> normalize, probes |-> 0])
    /\ wavedata' = upload_buffer(slot, data, normalize)
    /\ LET plan == upload_waveform_cmd(slot, data, normalize)
       IN  IF plan.kind = "send"
           THEN SendCommand(plan.cmd, "upload_select") /\ UNCHANGED outcome
           ELSE Finish(Raise(plan.err))
    /\ UNCHANGED <<driver, rxbuf, devout, devreg, setpoint, proc>>

\* The slot-select is over: after the acknowledgement every word is written,
\* then the first identity query is sent.
upload_select ==
    /\ Returned("upload_select")
    /\ IF ret.kind = "raise"
       THEN Finish(ret) /\ UNCHANGED <<op, wire>>
       ELSE IF ~upload_ack(ret.val[1])
       THEN Finish(Raise("ProtocolViolation")) /\ UNCHANGED <<op, wire>>
       ELSE /\ wire' = wire \o PackAll(upload_words(wavedata))
            /\ SendCommand(<<"UMO">>, "upload_probe")
            /\ UNCHANGED <<op, outcome>>
    /\ UNCHANGED <<driver, rxbuf, devout, devreg, setpoint, wavedata, proc>>

\* port.write raises on one of the words: the words before it were written.
upload_write_fails ==
    /\ Returned("upload_select")
    /\ ret.kind = "return"
    /\ upload_ack(ret.val[1])
    /\ \E k \in 0..(WaveLen - 1) :
          wire' = wire \o PackAll(SubSeq(upload_words(wavedata), 1, k))
    /\ Finish(Raise("SerialException"))
    /\ UNCHANGED <<driver, op, rxbuf, devout, devreg, setpoint, wavedata, proc>>

\* Lines 581-582 with no except clause.
probe_except_none(r) == r

\* Lines 581-582: except CommunicationError_Timeout: pass.
probe_except(r) == IF r.kind = "raise" /\ r.err = "Timeout" THEN NoResult ELSE r

\* An identity query of the closing loop is over.
upload_probe ==
    /\ Returned("upload_probe")
    /\ op' = [op EXCEPT !.probes = @ + 1]
    /\ IF probe_except(ret).kind = "raise"
       THEN Finish(probe_except(ret))
       ELSE IF op.probes + 1 < ProbeCount
       THEN SendCommand(<<"UMO">>, "upload_probe") /\ UNCHANGED outcome
       ELSE Finish(Return(TRUE))
    /\ UNCHANGED <<driver, io, proc>>
Lifecycle ==
    \/ \E name \in {"connect", "enter"} :
          connect_noop(name) \/ connect_open(name) \/ connect_open_fails(name)
    \/ connect_id
    \/ connect_serial
    \/ disconnect_noop
    \/ \E name \in {"disconnect", "exit", "atexit"} : close_open(name)
    \/ off0
    \/ off1
    \/ exit_noop
    \/ process_exit_noop
    \/ process_exit_unregistered

(***************************************************************************)
(* The arguments the operations are called with.                           *)
(***************************************************************************)
\* Channels 0..MaxChannel are tried: 0 and 1 exist, the others do not.
MaxChannel == 2
\* A parameter's range is cut in this many steps to get the values tried.
GridN == 8

Channels == 0..MaxChannel

\* Millionths added to a grid value, so that formatting with k fractional
\* digits has something to round down and something to round up.
Jitter(k) == {0, 4 * Pow10(5 - k), 6 * Pow10(5 - k)}

\* Values from `from` to `from + span` millionths.
Grid(from, span, k) ==
    {DecMicro(from + i * (span \div GridN) + j) : i \in 0..GridN, j \in Jitter(k)}

Waveforms == {<<e[1]>> : e \in set_waveformNumberMap} \cup {<<"UNSUPPORTED">>}
Slots == {<<s>> : s \in -1..64}
Frequencies ==
    {DecZero, Dec(FALSE, 0, 0, 1), Dec(FALSE, 0, 1000, 500000), Dec(FALSE, 599, 999999, 999999),
     Dec(FALSE, 600, 0, 0), Dec(FALSE, 600, 0, 1), Dec(TRUE, 0, 0, 1)}
Amplitudes == Grid(0, 20 * Base, 5) \cup {DecMicro(-4)}
Offsets == Grid(-20 * Base, 40 * Base, 5) \cup {DecMicro(-20 * Base - 6)}
Duties == Grid(0, 100 * Base, 3) \cup {DecMicro(-400)}
Phases ==
    Grid(-400 * Base, 1200 * Base, 3) \cup {DecInt(-10), DecInt(725), DecMicro(359999400)}

\* The read accessors, called with any channel.
Reads ==
    \E channel \in Channels :
        \/ get_channel_waveform(channel)
        \/ get_channel_frequency(channel)
        \/ get_channel_amplitude(channel)
        \/ get_channel_offset(channel)
        \/ get_channel_duty(channel)
        \/ get_channel_phase(channel)
        \/ is_channel_enabled(channel)

\* The write accessors, called with any channel and a few values each.
Writes ==
    \E channel \in Channels :
        \/ \E wa \in {<<<<"SINE">>, <<>>>>, <<<<"UNSUPPORTED">>, <<>>>>, <<<<>>, <<63>>>>,
                       <<<<>>, <<64>>>>, <<<<>>, <<>>>>, <<<<"SINE">>, <<0>>>>} :
              set_channel_waveform(channel, wa[1], wa[2])
        \/ \E f \in {Dec(FALSE, 0, 1000, 500000), Dec(FALSE, 600, 0, 1)} :
              set_channel_frequency(channel, f)
        \/ \E v \in {DecMicro(1500004), DecMicro(20000006)} : set_channel_amplitude(channel, v)
        \/ \E v \in {DecMicro(-1500004), DecMicro(20000006)} : set_channel_offset(channel, v)
        \/ \E v \in {DecMicro(99999600), DecMicro(-400)} : set_channel_duty(channel, v)
        \/ \E v \in {DecInt(-10)} : set_channel_phase(channel, v)
        \/ \E e \in BOOLEAN : set_channel_enabled(channel, e)

Next == Lifecycle \/ Reads \/ Writes \/ channel_return \/ exchange \/ exchange_fails

Spec == Init /\ [][Next]_vars

(***************************************************************************)
(* The codec against the device that stores setpoints: a connected driver, *)
(* every accessor, the arguments from the grids above.                     *)
(***************************************************************************)
InitCodec ==
    /\ portName = "/dev/ttyU0"
    /\ port = "open"
    /\ registered = TRUE
    /\ usesContext = "unset"
    /\ identification_string = IdentGood
    /\ maxfrq = initialRequests_parse(IdentGood).maxfrq
    /\ serialnumber = <<"7", "1">>
    /\ op = [name |-> "connect"]
    /\ pc = "idle"
    /\ scpc = "none"
    /\ cmd = <<>>
    /\ res = <<>>
    /\ ret = NoResult
    /\ rxbuf = <<>>
    /\ devout = <<>>
    /\ wire = <<>>
    /\ devreg = NoSetpoint
    /\ setpoint = NoSetpoint
    /\ wavedata = NoBuffer
    /\ outcome = Return(TRUE)
    /\ proc = "running"

\* The device's memory is written once in a behaviour: a set call is made
\* while the device has stored nothing, the read accessors at any time.
Unwritten == devreg = NoSetpoint

WaveformArgs ==
    {<<w, <<>>>> : w \in Waveforms} \cup {<<<<>>, a>> : a \in Slots}
        \cup {<<<<"SINE">>, <<0>>>>}

CodecWrites ==
    \E channel \in Channels :
        \/ \E wa \in WaveformArgs : Unwritten /\ set_channel_waveform(channel, wa[1], wa[2])
        \/ \E f \in Frequencies : Unwritten /\ set_channel_frequency(channel, f)
        \/ \E v \in Amplitudes : Unwritten /\ set_channel_amplitude(channel, v)
        \/ \E v \in Offsets : Unwritten /\ set_channel_offset(channel, v)
        \/ \E v \in Duties : Unwritten /\ set_channel_duty(channel, v)
        \/ \E v \in Phases : Unwritten /\ set_channel_phase(channel, v)
        \/ \E e \in BOOLEAN : Unwritten /\ set_channel_enabled(channel, e)

NextCodec == Reads \/ CodecWrites \/ channel_return \/ exchange_stored

SpecCodec == InitCodec /\ [][NextCodec]_vars


(***************************************************************************)
(* _sendCommand byte by byte: a connected driver, the read accessors, and  *)
(* a device whose bytes arrive one at a time, early, late or never.        *)
(***************************************************************************)
\* The accessors called: one with a numeric reply, one with a flag.
WireReads ==
    \E channel \in Channels : get_channel_amplitude(channel) \/ is_channel_enabled(channel)

NextWire ==
    \/ WireReads
    \/ channel_return
    \/ sc_drain
    \/ sc_write
    \/ sc_write_fails
    \/ sc_read
    \/ sc_timeout
    \/ dev_send

SpecWire == InitCodec /\ [][NextWire]_vars

(***************************************************************************)
(* The waveform upload: a connected driver, any slot, lists of every       *)
(* length around WaveLen and of sample values around the DAC's range.      *)
(***************************************************************************)
SampleValues == {-1, 5, DacMax, DacMax + 1}
UploadSlots == {-1, 0, 63, 64}
UploadLists ==
    {IntList(s) : s \in [1..WaveLen -> SampleValues]}
        \cup {IntList([i \in 1..n |-> 0]) : n \in {0, WaveLen - 1, WaveLen + 1}}

\* No list has been handed to the driver yet: one upload per behaviour.
Unsubmitted == wavedata = NoBuffer

NextUpload ==
    \/ \E slot \in UploadSlots, data \in UploadLists, normalize \in BOOLEAN :
          Unsubmitted /\ upload_waveform(slot, data, normalize)
    \/ upload_select
    \/ upload_write_fails
    \/ upload_probe
    \/ exchange
    \/ exchange_fails

SpecUpload == InitCodec /\ [][NextUpload]_vars

(***************************************************************************)
(* Properties.                                                             *)
(***************************************************************************)
Accessors == Getters \cup Setters

\* The command lines in what an operation wrote.
CommandLines(w) == Cardinality({i \in 1..Len(w) : w[i] = LF})

\* C1: when connect() (or entering the context) ends with ProtocolViolation,
\* because the identity reply lacks the prefix "FY6900-" or its frequency
\* figure does not parse, the driver holds no port: it is as unconnected as
\* before the call.
C1_FailedConnectHoldsNoPort ==
    (pc = "idle" /\ op.name \in {"connect", "enter"} /\ outcome.err = "ProtocolViolation")
        => port = None

\* connect() has failed on an identity of another device family and the port
\* it opened is still held.
C1_PortHeldAfterMismatch ==
    /\ pc = "idle"
    /\ op.name = "connect"
    /\ outcome.err = "ProtocolViolation"
    /\ identification_string = IdentOther
    /\ port # None

\* C2: whatever connect, disconnect, enter and exit calls came before, once
\* the process has exited no connection is left open: the release path ran
\* for every connection opened, also for one opened after a disconnect().
C2_ReleasedAtExit == proc = "exited" => port = None

\* The process has exited with the port open and no exit handler registered:
\* the last call was a connect() that opened the port and did the handshake.
C2_ExitedWithOpenPort ==
    /\ proc = "exited"
    /\ ~registered
    /\ port # None
    /\ op.name = "connect"
    /\ outcome.kind = "return"
    /\ wire = <<"UMO", LF, "UID", LF>>

\* C3: disconnect() on a connected driver sends WMN0, then WFN0 whatever the
\* first call's outcome, then closes the port whatever the second call's
\* outcome, and the port is closed nowhere else; it ends with no port and
\* returns True.  disconnect() with no connection writes nothing and changes
\* nothing of the driver.  (A step that sets op to a disconnect call while
\* the process keeps running is the start of that call.)
C3_DisableBothThenClose ==
    /\ []((pc = "idle" /\ op.name = "disconnect") => (port = None /\ outcome.kind = "return"))
    /\ [][(pc = "idle" /\ port # None /\ op'.name = "disconnect" /\ proc' = proc)
             => (pc' = "off0" /\ cmd' = <<"WMN", "0">> /\ port' = port)]_vars
    /\ [][(pc = "off0" /\ scpc = "done")
             => (pc' = "off1" /\ cmd' = <<"WFN", "0">> /\ port' = port)]_vars
    /\ [][(pc = "off1" /\ scpc = "done") => (pc' = "idle" /\ port' = None)]_vars
    /\ [][(port # None /\ port' = None) => (pc = "off1" /\ scpc = "done")]_vars
    /\ [][(pc = "idle" /\ port = None /\ op'.name = "disconnect" /\ proc' = proc)
             => (pc' = "idle" /\ wire' = <<>> /\ UNCHANGED <<driver, rxbuf, devout>>)]_vars

\* disconnect() is over with the port closed, although the write of WMN0
\* failed: only WFN0 reached the line.
C3_ClosedAfterFailedDisable ==
    /\ pc = "idle"
    /\ op.name = "disconnect"
    /\ port = None
    /\ wire = <<"WFN", "0", LF>>

\* C4: the step of _sendCommand that ends its read loop.  If the read gave no
\* byte the call raises Timeout and returns nothing, however many bytes it
\* had read; if the call returns a value, the read gave the terminator 0x0A
\* and the value is the bytes read before it.
C4_TimeoutReturnsNothing ==
    [][(scpc = "read" /\ scpc' = "done")
          => /\ rxbuf = <<>> => ret' = Raise("Timeout")
             /\ ret'.kind = "return"
                   => (rxbuf # <<>> /\ Head(rxbuf) = LF /\ ret'.val = <<res>>)]_vars

\* _sendCommand has raised Timeout after it had read bytes of a reply.
C4_TimeoutAfterBytes ==
    /\ scpc = "done"
    /\ ret = Raise("Timeout")
    /\ res # <<>>

\* C5: an accessor called on a connected driver with a channel other than 0
\* and 1 raises ValueError and writes nothing.
C5_BadChannelRejected ==
    (pc = "idle" /\ port # None /\ maxfrq # <<>> /\ op.name \in Accessors
        /\ op.channel \notin {0, 1})
        => (outcome.err = "ValueError" /\ wire = <<>>)

\* set_channel_enabled was called with channel 2 and returned.
C5_BadChannelAccepted ==
    /\ pc = "idle"
    /\ port # None
    /\ op.name = "set_channel_enabled"
    /\ op.channel = 2
    /\ outcome.kind = "return"

\* C6: an accessor called while the driver holds no port fails before any
\* I/O, with NotConnected (or with ValueError, when an argument is invalid
\* too).
C6_NotConnectedRejected ==
    (pc = "idle" /\ port = None /\ op.name \in Accessors)
        => (outcome.err \in {"NotConnected", "ValueError"} /\ wire = <<>>)

\* A read accessor was called on channel 0 with no port and raised
\* AttributeError.
C6_AttributeErrorWithoutPort ==
    /\ pc = "idle"
    /\ port = None
    /\ op.name \in Getters
    /\ op.channel = 0
    /\ outcome.err = "AttributeError"

\* C7: an accessor surfaces a Timeout only after commandRetries attempts,
\* each of which wrote its command line.
C7_RetriedBeforeFailing ==
    (pc = "idle" /\ op.name \in Accessors /\ outcome.err = "Timeout")
        => CommandLines(wire) = commandRetries

\* An accessor has raised Timeout after writing one command line.
C7_FailedAfterOneAttempt ==
    /\ pc = "idle"
    /\ op.name \in Accessors
    /\ outcome.err = "Timeout"
    /\ CommandLines(wire) = 1

\* The parameter a numeric accessor reads, and the channel's letter.
ParamOf ==
    [n \in {"get_channel_frequency", "get_channel_amplitude", "get_channel_offset",
            "get_channel_duty", "get_channel_phase"} |->
        CASE n = "get_channel_frequency" -> "F"
          [] n = "get_channel_amplitude" -> "A"
          [] n = "get_channel_offset" -> "O"
          [] n = "get_channel_duty" -> "D"
          [] OTHER -> "P"]
ChannelLetter(channel) == IF channel = 0 THEN "M" ELSE "F"

\* lo <= v <= hi, and lo <= v < hi.
Between(v, lo, hi) == ~DecLess(v, lo) /\ ~DecGreater(v, hi)
Below(v, lo, hi) == ~DecLess(v, lo) /\ DecLess(v, hi)

\* The documented range of parameter p.
InRange(p, v) ==
    CASE p = "F" -> maxfrq # <<>> /\ Between(v, DecZero, maxfrq[1])
      [] p = "A" -> Between(v, DecZero, DecInt(20))
      [] p = "O" -> Between(v, DecInt(-20), DecInt(20))
      [] p = "D" -> Below(v, DecZero, DecInt(100))
      [] OTHER -> Below(v, DecZero, DecInt(360))

\* The step of parameter p's read encoding: 1 uHz, 0.1 mV, 1 mV, 0.001 %,
\* 0.001 degree.
Quantum(p) ==
    CASE p = "F" -> DecMicro(1)
      [] p = "A" -> DecMicro(100)
      [] OTHER -> DecMicro(1000)

Within(a, b, step) == ~DecGreater([DecSub(a, b) EXCEPT !.neg = FALSE], step)

\* C8: a numeric get on channel 0 or 1, made after a set of the same
\* parameter on the same channel stored v on the device, v in the documented
\* range, returns a value within one quantization step of v.
C8_SetThenGet ==
    (/\ pc = "idle"
     /\ op.name \in DOMAIN ParamOf
     /\ op.channel \in {0, 1}
     /\ setpoint.key = ChannelLetter(op.channel) \o ParamOf[op.name]
     /\ InRange(ParamOf[op.name], setpoint.val[1]))
        => (outcome.kind = "return"
            /\ Within(outcome.val[1], setpoint.val[1], Quantum(ParamOf[op.name])))

\* get_channel_offset has raised ProtocolViolation on a device that stored an
\* offset above 10 V set on that channel.
C8_OffsetAboveTenVoltsLost ==
    /\ pc = "idle"
    /\ op.name = "get_channel_offset"
    /\ op.channel \in {0, 1}
    /\ setpoint.key = ChannelLetter(op.channel) \o "O"
    /\ DecGreater(setpoint.val[1], DecInt(10))
    /\ outcome.err = "ProtocolViolation"

\* C9: get_channel_waveform on channel 0 or 1, made after set_channel_waveform
\* stored a code on the device for that channel, returns what was set: the
\* named shape, or the arbitrary slot.
C9_WaveformRoundTrip ==
    (/\ pc = "idle"
     /\ op.name = "get_channel_waveform"
     /\ op.channel \in {0, 1}
     /\ setpoint.key = ChannelLetter(op.channel) \o "W")
        => (/\ outcome.kind = "return"
            /\ IF setpoint.val[1][2] = <<>>
               THEN outcome.val = setpoint.val[1][1]
               ELSE outcome.val = setpoint.val[1][2])

\* get_channel_waveform has raised ProtocolViolation on a device that stored
\* the code of arbitrary slot 0.
C9_SlotCodeRejected ==
    /\ pc = "idle"
    /\ op.name = "get_channel_waveform"
    /\ op.channel \in {0, 1}
    /\ setpoint.key = ChannelLetter(op.channel) \o "W"
    /\ setpoint.val[1][2] = <<0>>
    /\ outcome.err = "ProtocolViolation"

\* C10: every value a numeric get returns lies in the parameter's declared
\* range: a reply decoding to a value outside it is not returned.
C10_ReturnedValueInRange ==
    (pc = "idle" /\ op.name \in DOMAIN ParamOf /\ outcome.kind = "return")
        => InRange(ParamOf[op.name], outcome.val[1])

\* get_channel_phase has returned 360.0.
C10_Phase360Returned ==
    /\ pc = "idle"
    /\ op.name = "get_channel_phase"
    /\ outcome.kind = "return"
    /\ DecEq(outcome.val[1], DecInt(360))

(***************************************************************************)
(* The waveform upload                                                     *)
(***************************************************************************)
Uploading == op.name = "upload_waveform"

\* A sample of the list, as the range check sees it, lies outside 0..16383.
SampleOutside ==
    \E i \in 1..Len(wavedata.vals) :
        wavedata.vals[i] < 0 \/ wavedata.vals[i] > DacMax * wavedata.den

UploadArgumentsBad ==
    \/ op.slot \notin 0..63
    \/ Len(op.data.vals) # WaveLen
    \/ SampleOutside

\* C11: an upload whose slot is outside 0..63, whose list has not exactly
\* WaveLen samples, or whose samples (after the optional normalisation) are
\* not all within 0..16383 fails with ValueError, and not one byte, the
\* slot-select included, has been written.
C11_BadArgumentsWriteNothing ==
    (Uploading /\ UploadArgumentsBad) =>
        (pc = "idle" /\ outcome = Raise("ValueError") /\ wire = <<>>)

\* A list of the right length for a valid slot, one sample above the DAC's
\* range, no normalisation: rejected.
C11_SampleAboveRangeRejected ==
    /\ Uploading
    /\ op.slot \in 0..63
    /\ Len(op.data.vals) = WaveLen
    /\ ~op.normalize
    /\ \E i \in 1..WaveLen : op.data.vals[i] = DacMax + 1
    /\ \A i \in 1..WaveLen : op.data.vals[i] >= 0
    /\ outcome = Raise("ValueError")
    /\ wire = <<>>

\* The slot-select as it stands on the wire, and the text of every byte value.
SelectLine == upload_select_cmd(op.slot) \o <<LF>>
ByteTexts == {ByteText(n) : n \in 0..255}

\* The words of the list on the wire, high byte first, after the slot-select.
WordsOnWire(w) ==
    /\ Len(w) >= Len(SelectLine) + 2 * WaveLen
    /\ SubSeq(w, 1, Len(SelectLine)) = SelectLine
    /\ \A i \in 1..WaveLen :
          LET hi == w[Len(SelectLine) + 2 * i - 1]
              lo == w[Len(SelectLine) + 2 * i]
          IN  /\ hi \in ByteTexts /\ lo \in ByteTexts
              /\ ~op.normalize =>
                    /\ hi = ByteText(op.data.vals[i] \div 256)
                    /\ lo = ByteText(op.data.vals[i] % 256)

SelectAnswered == pc = "upload_select" /\ scpc = "done"

\* C12: sample bytes are written only after the slot-select was sent and
\* answered by exactly "W"; any other reply fails the upload with
\* ProtocolViolation and a timeout of the slot-select with Timeout, and in
\* both cases nothing follows the slot-select on the wire.  After the
\* acknowledgement the WaveLen words follow the slot-select directly, each
\* as two bytes, high byte first, unless the port fails in between.
C12_SamplesOnlyAfterAck ==
    /\ [](Uploading =>
            /\ (pc = "idle" /\ outcome \in {Raise("ProtocolViolation"), Raise("Timeout")})
                  => wire = SelectLine
            /\ (pc = "upload_probe" \/ (pc = "idle" /\ outcome = Return(TRUE)))
                  => WordsOnWire(wire))
    /\ [][(Uploading /\ Uploading') =>
            /\ (\E i \in (Len(wire) + 1)..Len(wire') : wire'[i] \in ByteTexts) =>
                  /\ SelectAnswered
                  /\ ret = Return(<<"W">>)
                  /\ wire = SelectLine
                  /\ WordsOnWire(wire') \/ outcome' = Raise("SerialException")
            /\ (SelectAnswered /\ ret.kind = "return" /\ ret.val[1] # <<"W">>) =>
                  (outcome' = Raise("ProtocolViolation") /\ pc' = "idle" /\ wire' = wire)
            /\ (SelectAnswered /\ ret = Raise("Timeout")) =>
                  (outcome' = Raise("Timeout") /\ pc' = "idle" /\ wire' = wire)]_vars

\* The acknowledgement came and the words of the list have just been written.
C12_WordsWrittenAfterAck ==
    /\ Uploading
    /\ pc = "upload_probe"
    /\ op.probes = 0
    /\ op.data.vals = <<5, DacMax, 5>> \o [i \in 1..(WaveLen - 3) |-> 5]
    /\ ~op.normalize
    /\ WordsOnWire(wire)
    /\ Len(wire) = Len(SelectLine) + 2 * WaveLen

\* The smallest and the largest sample the caller handed over.
IsMinSample(i) == \A j \in 1..Len(op.data.vals) : op.data.vals[i] <= op.data.vals[j]
IsMaxSample(i) == \A j \in 1..Len(op.data.vals) : op.data.vals[i] >= op.data.vals[j]
Normalizing == Uploading /\ op.normalize /\ op.slot \in 0..63 /\ Len(op.data.vals) = WaveLen

\* The word of sample i on the wire is the two bytes hi, lo.
WordSent(i, hi, lo) ==
    /\ wire[Len(SelectLine) + 2 * i - 1] = ByteText(hi)
    /\ wire[Len(SelectLine) + 2 * i] = ByteText(lo)

\* C13: with normalisation requested every sample becomes a word within
\* 0..16383: a smallest sample the word 0, a largest sample the word 16383
\* when the samples differ, every sample the word 0 when they are all equal.
\* The division is never by zero and the range check never rejects the list;
\* the words on the wire are those.
C13_NormalizedIntoDacRange ==
    Normalizing =>
        /\ wavedata.den > 0
        /\ pc = "idle" => outcome # Raise("ValueError")
        /\ \A i \in 1..WaveLen :
              LET word == wavedata.vals[i] \div wavedata.den
              IN  /\ word \in 0..DacMax
                  /\ IsMinSample(i) => word = 0
                  /\ (IsMaxSample(i) /\ ~IsMinSample(i)) => word = DacMax
                  /\ (pc = "upload_probe" \/ (pc = "idle" /\ outcome = Return(TRUE))) =>
                        WordSent(i, word \div 256, word % 256)

\* Samples below and above the DAC's range were normalised and sent: the
\* smallest as 0x0000, the largest as 0x3fff.
C13_ExtremesSent ==
    /\ Normalizing
    /\ pc = "idle"
    /\ outcome = Return(TRUE)
    /\ op.data.vals[1] = -1
    /\ op.data.vals[2] = DacMax + 1
    /\ \A i \in 3..WaveLen : op.data.vals[i] = 5
    /\ WordSent(1, 0, 0)
    /\ WordSent(2, 63, 255)

(***************************************************************************)
(* set_channel_phase                                                       *)
(***************************************************************************)
\* The phase as set_channel_phase put it on the wire, after the mnemonic.
PhaseText == SubSeq(wire, 2, Len(wire) - 1)

\* C14: the phase that set_channel_phase writes for channel 0 or 1 carries no
\* minus sign, is at least 0 and below 360, and is the input shifted by a
\* multiple of 360, to the three decimals written.
C14_PhaseWrittenInRange ==
    (op.name = "set_channel_phase" /\ op.channel \in {0, 1} /\ wire # <<>>) =>
        /\ \A i \in 1..Len(PhaseText) : PhaseText[i] # "-"
        /\ ParseFloat(PhaseText).ok
        /\ Below(ParseFloat(PhaseText).val, DecZero, DecInt(360))
        /\ \E k \in -3..3 :
              Within(ParseFloat(PhaseText).val, DecAdd(op.val[1], DecInt(360 * k)),
                     DecMicro(500))

\* A phase between 359.999 and 360 was set and -0.001 was written.
C14_NegativePhaseWritten ==
    /\ op.name = "set_channel_phase"
    /\ op.channel = 0
    /\ op.val[1] = DecMicro(359999400)
    /\ wire = <<"WMP", "-", "0", ".", "0", "0", "1", LF>>

(***************************************************************************)
(* The framing of commands                                                 *)
(***************************************************************************)
\* C15: every command on the wire is one line followed by exactly one line
\* feed: no line feed written by the driver follows another one directly,
\* and the slot-select of an upload is "DDS_WAVE", the two digits of
\* slot + 1 and a single line feed.
C15_OneLinefeedPerCommand ==
    /\ \A i \in 1..(Len(wire) - 1) : ~(wire[i] = LF /\ wire[i + 1] = LF)
    /\ (Uploading /\ wire # <<>>) =>
          /\ SubSeq(wire, 1, 4) = <<"DDS_WAVE">> \o FormatFixed(DecInt(op.slot + 1), 0, 2) \o <<LF>>
          /\ Len(wire) > 4 => wire[5] # LF

\* The slot-select of slot 63 is on the wire, followed by two line feeds.
C15_SelectWithTwoLinefeeds ==
    /\ Uploading
    /\ op.slot = 63
    /\ wire = <<"DDS_WAVE", "6", "4", LF, LF>>

(***************************************************************************)
(* The order of _sendCommand                                               *)
(***************************************************************************)
\* C16: _sendCommand drains, then writes, then reads.  The drain step empties
\* the receive buffer and keeps none of it; the command line is written in
\* the step after the drain and nowhere else; the payload grows only in the
\* read phase, by the byte taken from the head of the receive buffer, and
\* the payload returned is what was kept when the line feed was read.
C16_DrainWriteRead ==
    /\ [](scpc \in {"drain", "write"} => res = <<>>)
    /\ [][/\ (scpc = "drain" /\ scpc' # scpc) =>
                (scpc' = "write" /\ rxbuf' = <<>> /\ res' = <<>> /\ wire' = wire)
          /\ (scpc = "write" /\ scpc' # scpc) =>
                \/ scpc' = "read" /\ wire' = wire \o cmd \o <<LF>> /\ res' = <<>>
                \/ scpc' = "done" /\ ret'.kind = "raise" /\ wire' = wire
          /\ (wire' # wire /\ wire' # <<>>) => (scpc = "write" /\ scpc' = "read")
          /\ (scpc' = "read" /\ scpc # "read") => scpc = "write"
          /\ (scpc = "read" /\ res' # res) =>
                (rxbuf # <<>> /\ res' = Append(res, Head(rxbuf)) /\ rxbuf' = Tail(rxbuf)
                 /\ Head(rxbuf) # LF /\ scpc' = "read")
          /\ (scpc = "read" /\ scpc' = "done" /\ ret'.kind = "return") =>
                (rxbuf # <<>> /\ Head(rxbuf) = LF /\ ret'.val[1] = res
                 /\ \A i \in 1..Len(res) : res[i] # LF)
          /\ (scpc' = "done" /\ scpc # "done" /\ ret'.kind = "return") => scpc = "read"]_vars

\* _sendCommand was entered after a timeout, with bytes of the late reply in
\* the receive buffer.
C16_StaleBytesAtInvocation ==
    /\ scpc = "drain"
    /\ rxbuf # <<>>
    /\ outcome = Raise("Timeout")
    /\ wire = <<>>

(***************************************************************************)
(* The identity queries that close an upload                               *)
(***************************************************************************)
RECURSIVE ProbeLines(_)
ProbeLines(n) == IF n = 0 THEN <<>> ELSE <<"UMO", LF>> \o ProbeLines(n - 1)

ProbeAnswered == Uploading /\ pc = "upload_probe" /\ scpc = "done"

\* C17: after the last word of an acknowledged upload the driver sends
\* exactly ProbeCount identity queries, one after the other, whatever each
\* of them gives, a reply or a Timeout; after the last one the upload returns
\* True.  No upload that wrote its words ends with Timeout.
C17_ThreeProbesThenSuccess ==
    /\ [](Uploading =>
            /\ pc = "upload_probe" =>
                  /\ op.probes < ProbeCount
                  /\ \/ wire = SubSeq(wire, 1, Len(SelectLine) + 2 * WaveLen)
                               \o ProbeLines(op.probes + 1)
                     \/ /\ wire = SubSeq(wire, 1, Len(SelectLine) + 2 * WaveLen)
                                     \o ProbeLines(op.probes)
                        /\ scpc = "drain" \/ ret = Raise("SerialException")
            /\ (pc = "idle" /\ outcome = Return(TRUE)) =>
                  /\ op.probes = ProbeCount
                  /\ wire = SubSeq(wire, 1, Len(SelectLine) + 2 * WaveLen)
                               \o ProbeLines(ProbeCount)
            /\ (pc = "idle" /\ Len(wire) >= Len(SelectLine) + 2 * WaveLen) =>
                  outcome # Raise("Timeout"))
    /\ [][(ProbeAnswered /\ (ret.kind = "return" \/ ret = Raise("Timeout"))) =>
            IF op.probes + 1 = ProbeCount
            THEN pc' = "idle" /\ outcome' = Return(TRUE) /\ wire' = wire
            ELSE pc' = "upload_probe" /\ scpc' = "drain" /\ cmd' = <<"UMO">>
                 /\ op'.probes = op.probes + 1]_vars

\* The words and all the identity queries are on the wire and the upload has
\* returned True.
C17_ReturnedAfterProbes ==
    /\ Uploading
    /\ pc = "idle"
    /\ outcome = Return(TRUE)
    /\ op.probes = ProbeCount
    /\ Len(wire) = Len(SelectLine) + 2 * WaveLen + 2 * ProbeCount

(***************************************************************************)
(* The handshake of connect                                                *)
(***************************************************************************)
Connecting == op.name \in {"connect", "enter"}
Handshake == <<"UMO", LF, "UID", LF>>

\* C18: connect() on a driver without a port opens it and sends UMO first;
\* UID is sent only once the identification read back starts with "FY6900-"
\* and its frequency figure has been parsed into maxfrq.  connect() on a
\* driver that holds a port writes nothing and leaves the identification,
\* the maximum frequency and the serial number as they were.
C18_HandshakeInOrder ==
    /\ [](Connecting =>
            /\ Len(wire) <= Len(Handshake) /\ wire = SubSeq(Handshake, 1, Len(wire))
            /\ (pc = "connect_serial" \/ Len(wire) > 2) =>
                  /\ StartsWith(identification_string, IdentPrefix)
                  /\ ParseInt(SubSeq(identification_string, 8,
                                     Len(identification_string) - 1)).ok
                  /\ maxfrq # <<>>)
    /\ [][(pc = "idle" /\ op'.name = "connect" /\ proc' = proc /\ portName # None) =>
            IF port = None
            THEN \/ port' = "open" /\ pc' = "connect_id" /\ cmd' = <<"UMO">> /\ wire' = <<>>
                 \/ port' = None /\ pc' = "idle" /\ outcome' = Raise("SerialException")
                    /\ wire' = <<>>
            ELSE /\ pc' = "idle" /\ wire' = <<>> /\ outcome' = Return(TRUE)
                 /\ UNCHANGED <<port, identification_string, maxfrq, serialnumber>>]_vars

\* connect() was called on a driver that had completed its handshake: it
\* returned True with nothing written.
C18_SecondConnectSilent ==
    /\ op.name = "connect"
    /\ pc = "idle"
    /\ port = "open"
    /\ outcome = Return(TRUE)
    /\ wire = <<>>
    /\ identification_string = IdentGood
    /\ serialnumber = <<"7", "1">>

(***************************************************************************)
(* Replies that arrive late                                                *)
(***************************************************************************)
\* C19: what _sendCommand returns is a reply of the device to the command
\* just written, also after an earlier command timed out and its reply
\* arrives late.
C19_ReplyBelongsToCommand ==
    (scpc = "done" /\ ret.kind = "return") => ret.val[1] \in DeviceReplies(cmd)

\* get_channel_amplitude timed out; the is_channel_enabled call after it was
\* handed the amplitude reply.
C19_LateReplyReturned ==
    /\ scpc = "done"
    /\ op.name = "is_channel_enabled"
    /\ Head(cmd) \in ReadMnemonics("N")
    /\ outcome = Raise("Timeout")
    /\ ret = Return(ToDigits(12345))
    /\ wire = cmd \o <<LF>>

(***************************************************************************)
(* The caller's list                                                       *)
(***************************************************************************)
\* C20: during and after an upload, however it ends and with normalize on
\* or off, the caller's list holds the values it held when it was passed.
C20_CallerListUnchanged ==
    Uploading =>
        /\ Len(wavedata.vals) = Len(op.data.vals)
        /\ \A i \in 1..Len(op.data.vals) :
              wavedata.vals[i] = op.data.vals[i] * wavedata.den

\* An upload of equal samples with normalize on failed on the
\* acknowledgement and left the caller's list all zero.
C20_ListZeroedAfterFailure ==
    /\ Uploading
    /\ op.normalize
    /\ pc = "idle"
    /\ outcome = Raise("ProtocolViolation")
    /\ \A i \in 1..WaveLen : op.data.vals[i] = 5
    /\ wavedata = [vals |-> [i \in 1..WaveLen |-> 0], den |-> 1]
====
